---- MODULE Spec2Model ----
(***************************************************************************)
(* Model of src/js/apiCalls.js of github-label-manager-plus: the entry     *)
(* codec (formatDate, serializeEntry, packEntry), the status interpreter   *)
(* (composeStatusMessage), the recursive paginated collector (apiCallGet)  *)
(* and the three write operations (apiCallCreate / Update / Delete).       *)
(*                                                                         *)
(* JavaScript values are tagged records, so that undefined, null, numbers  *)
(* and strings stay distinct.  Strings the code takes apart (dates, times, *)
(* colours) are sequences of one-character strings; strings the code only  *)
(* passes around are TLA+ strings.  A message built by a template literal  *)
(* is the sequence of the values it concatenates.                          *)
(***************************************************************************)
EXTENDS Integers, Sequences, FiniteSets, TLC

\* ------------------------------------------------------------------------
\* Bounds of the model
\* ------------------------------------------------------------------------
MaxPages == 3          \* the server answers every page beyond this one empty
MaxOps == 2            \* write operations started in one behaviour

\* ------------------------------------------------------------------------
\* JavaScript values
\* ------------------------------------------------------------------------
Undefined == [t |-> "undefined"]
Null == [t |-> "null"]
Str(s) == [t |-> "string", v |-> s]
Num(n) == [t |-> "number", v |-> n]

\* delete obj[field]
DeleteField(obj, field) == [f \in (DOMAIN obj) \ {field} |-> obj[f]]

\* obj[field] of a plain object: undefined when the field is absent
GetField(obj, field) == IF field \in DOMAIN obj THEN obj[field] ELSE Undefined

\* JSON.stringify of a plain object: members whose value is undefined are
\* left out, the others are kept
JsonStringify(obj) ==
  [f \in {g \in DOMAIN obj : obj[g] # Undefined} |-> obj[f]]

\* ------------------------------------------------------------------------
\* Strings as character sequences
\* ------------------------------------------------------------------------
DigitChars == <<"0", "1", "2", "3", "4", "5", "6", "7", "8", "9">>

DigitValue(c) == (CHOOSE i \in 1..10 : DigitChars[i] = c) - 1

RECURSIVE ToNumber(_)
\* unary plus / ToNumber of a string of decimal digits
ToNumber(s) ==
  IF s = <<>> THEN 0
  ELSE 10 * ToNumber(SubSeq(s, 1, Len(s) - 1)) + DigitValue(s[Len(s)])

RECURSIVE Split(_, _)
\* String.prototype.split with a one-character separator
Split(s, sep) ==
  IF \A i \in 1..Len(s) : s[i] # sep THEN <<s>>
  ELSE LET k == CHOOSE i \in 1..Len(s) :
                  s[i] = sep /\ \A j \in 1..(i - 1) : s[j] # sep
       IN <<SubSeq(s, 1, k - 1)>> \o Split(SubSeq(s, k + 1, Len(s)), sep)

\* decimal digits of n, left-padded with zeros to the given width
RECURSIVE Pad(_, _)
Pad(n, width) ==
  IF width = 0 THEN <<>>
  ELSE Pad(n \div 10, width - 1) \o <<DigitChars[(n % 10) + 1]>>

\* String.prototype.replace(pattern, replacement) with a string pattern:
\* the first occurrence only
ReplaceFirst(s, pat, rep) ==
  LET hits == {i \in 1..(Len(s) - Len(pat) + 1) :
                 SubSeq(s, i, i + Len(pat) - 1) = pat}
  IN IF hits = {} THEN s
     ELSE LET k == CHOOSE i \in hits : \A j \in hits : i <= j
          IN SubSeq(s, 1, k - 1) \o rep \o SubSeq(s, k + Len(pat), Len(s))

\* ------------------------------------------------------------------------
\* The Date built-in, as used by formatDate
\* ------------------------------------------------------------------------
\* day number (days since 1970-01-01) of civil date y-m-d, m in 1..12
DaysFromCivil(y, m, d) ==
  LET yy == IF m <= 2 THEN y - 1 ELSE y
      era == yy \div 400
      yoe == yy - era * 400
      mp == IF m > 2 THEN m - 3 ELSE m + 9
      doy == (153 * mp + 2) \div 5 + d - 1
      doe == yoe * 365 + yoe \div 4 - yoe \div 100 + doy
  IN era * 146097 + doe - 719468

\* civil date of a day number
CivilFromDays(days) ==
  LET z == days + 719468
      era == z \div 146097
      doe == z - era * 146097
      yoe == (doe - doe \div 1460 + doe \div 36524 - doe \div 146096) \div 365
      doy == doe - (365 * yoe + yoe \div 4 - yoe \div 100)
      mp == (5 * doy + 2) \div 153
      d == doy - (153 * mp + 2) \div 5 + 1
      m == IF mp < 10 THEN mp + 3 ELSE mp - 9
      y == yoe + era * 400 + (IF m <= 2 THEN 1 ELSE 0)
  IN [year |-> y, month |-> m, dayOfMonth |-> d]

\* new Date(year, monthIndex, day, hours, minutes, seconds): the fields are
\* LOCAL time; the time value kept is UTC, that is local time minus the
\* environment's offset (tz: minutes east of UTC).  The value is kept as a day
\* number and a second of that day; the milliseconds are zero.
NewDate(year, monthIndex, day, hours, minutes, seconds, tz) ==
  LET fullYear == IF year >= 0 /\ year <= 99 THEN 1900 + year ELSE year
      ym == fullYear + monthIndex \div 12
      mn == monthIndex % 12
      localDay == DaysFromCivil(ym, mn + 1, 1) + day - 1
      localSec == hours * 3600 + minutes * 60 + seconds
      utcSec == localSec - tz * 60
  IN [day |-> localDay + utcSec \div 86400, sec |-> utcSec % 86400, ms |-> 0]

\* Date.prototype.toISOString: YYYY-MM-DDTHH:mm:ss.sssZ of the UTC time value
ToISOString(dateObject) ==
  LET c == CivilFromDays(dateObject.day)
      s == dateObject.sec
  IN Pad(c.year, 4) \o <<"-">> \o Pad(c.month, 2) \o <<"-">>
       \o Pad(c.dayOfMonth, 2) \o <<"T">>
       \o Pad(s \div 3600, 2) \o <<":">> \o Pad((s % 3600) \div 60, 2)
       \o <<":">> \o Pad(s % 60, 2) \o <<".">> \o Pad(dateObject.ms, 3)
       \o <<"Z">>

\* ------------------------------------------------------------------------
\* Entry codec
\* ------------------------------------------------------------------------
\* formatDate(node): node.value is the date, the attribute data-orig-time the
\* time (null when the attribute is absent); tz is the environment's offset
formatDate(node, tz) ==
  LET date == node.value
      time == node.origTime
  IN IF date = <<>> THEN Null
     ELSE LET d == Split(date, "-")
              year == ToNumber(d[1])
              month == ToNumber(d[2])
              dayOfMonth == ToNumber(d[3])
              hms == IF time # Null /\ time.v # <<>>
                       THEN LET p == Split(time.v, ":")
                            IN <<ToNumber(p[1]), ToNumber(p[2]), ToNumber(p[3])>>
                       ELSE <<0, 0, 0>>
              dateObject == NewDate(year, month - 1, dayOfMonth,
                                    hms[1], hms[2], hms[3], tz)
          IN Str(ReplaceFirst(ToISOString(dateObject),
                              <<".", "0", "0", "0", "Z">>, <<"Z">>))

\* validateKind(kind) of ./dataValidation: TRUE when it returns, FALSE when it
\* throws; the only supported kinds are labels and milestones
validateKind(kind) == kind \in {"labels", "milestones"}

\* the error validateKind throws for an unsupported kind
ValidationError(kind) ==
  [t |-> "Error", message |-> <<Str("Invalid kind: "), Str(kind)>>]

\* serializeEntry(node, kind): the entry node of the form is a record of the
\* values and attributes the selectors of the code read; the result is the
\* object literal of the branch taken, undefined for an unsupported kind
serializeEntry(node, kind, tz) ==
  IF ~validateKind(kind) THEN Undefined
  ELSE IF kind = "labels" THEN
    [name |-> Str(node.name),
     originalName |-> Str(node.origVal),
     color |-> Str(Tail(node.color)),
     description |-> Str(node.description)]
  ELSE IF node.dataNumber # <<"n", "u", "l", "l">> THEN
    [title |-> Str(node.title),
     originalTitle |-> Str(node.origVal),
     state |-> Str(node.state),
     description |-> Str(node.description),
     due_on |-> formatDate(node.dueDate, tz),
     number |-> Num(ToNumber(node.dataNumber))]
  ELSE IF node.dueDate.value # <<>> THEN
    [title |-> Str(node.title),
     state |-> Str(node.state),
     description |-> Str(node.description),
     due_on |-> formatDate(node.dueDate, tz)]
  ELSE
    \* the code reads the property "valie" of the state input, which no
    \* element has: the value is undefined
    [title |-> Str(node.title),
     state |-> Undefined,
     description |-> Str(node.description)]

\* packEntry(serializedEntry, kind).  entryObjectCopy is a second reference to
\* the argument, not a copy, so the delete acts on the caller's object:
\* "arg" is the caller's object as it is when packEntry returns, "body" the
\* returned body, and "bodyIsArg" tells that both are one object.
packEntry(serializedEntry, kind) ==
  LET idField == IF kind = "labels" THEN "originalName" ELSE "originalTitle"
      entryPackage ==
        IF kind = "labels"
          THEN [originalName |-> GetField(serializedEntry, "originalName"),
                newName |-> GetField(serializedEntry, "name"),
                apiCallSign |-> GetField(serializedEntry, "originalName")]
          ELSE [originalName |-> GetField(serializedEntry, "originalTitle"),
                newName |-> GetField(serializedEntry, "title"),
                apiCallSign |-> GetField(serializedEntry, "number")]
      entryObjectCopy == DeleteField(serializedEntry, idField)
  IN [body |-> entryObjectCopy,
      names |-> entryPackage,
      arg |-> entryObjectCopy,
      bodyIsArg |-> TRUE]

\* ------------------------------------------------------------------------
\* Status interpreter
\* ------------------------------------------------------------------------
\* Response.ok
Ok(status) == status >= 200 /\ status <= 299

\* reason phrases of the statuses the model's server answers with
StatusText(status) ==
  CASE status = 200 -> "OK"
    [] status = 201 -> "Created"
    [] status = 401 -> "Unauthorized"
    [] status = 403 -> "Forbidden"
    [] status = 404 -> "Not Found"
    [] status = 422 -> "Unprocessable Entity"
    [] OTHER -> "Internal Server Error"

\* a Response of the Fetch API with the given status
Response(status) ==
  [ok |-> Ok(status), status |-> status, statusText |-> StatusText(status)]

composeStatusMessage(response) ==
  IF response.ok THEN <<Num(response.status), Str(" status OK.")>>
  ELSE IF response.status = 401 THEN
    <<Num(response.status), Str(" "), Str(response.statusText), Str("."),
      Str(" Please check the input values of your login information.")>>
  ELSE IF response.status = 403 THEN
    <<Num(response.status), Str(" "), Str(response.statusText), Str("."),
      Str(" The GitHub server refused to your request."),
      Str(" Maybe you have exceeded your rate limit."),
      Str(" Please wait for a little while.")>>
  ELSE IF response.status = 404 THEN
    <<Num(response.status), Str(" "), Str(response.statusText), Str("."),
      Str(" Repository not found. Please check the input values of your"),
      Str(" login information.")>>
  ELSE
    <<Num(response.status), Str(" "), Str(response.statusText), Str("."),
      Str(" Error occurred.")>>

\* new Error(message)
NewError(message) == [t |-> "Error", message |-> message]

\* the TypeError fetch rejects with on a transport failure
NetworkError == [t |-> "TypeError", message |-> <<Str("Failed to fetch")>>]

\* the SyntaxError response.json() rejects with when the body is not JSON
JsonError == [t |-> "SyntaxError", message |-> <<Str("Unexpected token")>>]

\* `${err}` in a template literal: an Error prints as "name: message", a
\* string as itself
ErrToString(err) ==
  IF err.t = "string" THEN err.v ELSE <<Str(err.t), Str(": ")>> \o err.message

\* ------------------------------------------------------------------------
\* State
\* ------------------------------------------------------------------------
VARIABLES
  kindGet,      \* the kind argument of the running aggregation
  calls,        \* the apiCallGet invocations; calls[i + 1] is called by calls[i]
  inflight,     \* the GET requests issued and not yet answered
  requested,    \* history: the page numbers of the GET requests, in issue order
  served,       \* history: the answers of the server, in arrival order
  alerts,       \* the arguments of the alert calls, in order
  tz,           \* the environment's time-zone offset, minutes east of UTC
  entryNode,    \* the entry node of the form the write operations read
  ops,          \* the write operations started
  writeRequests,\* history: the requests the write operations issued
  log,          \* the paragraphs writeLog appended to the modal
  codec         \* the last call of the entry codec and what it returned

getVars == <<kindGet, calls, inflight, requested, served, alerts>>
envVars == <<tz, entryNode, codec>>
writeVars == <<tz, entryNode, codec, ops, writeRequests, log>>
vars == <<kindGet, calls, inflight, requested, served, alerts,
          tz, entryNode, codec, ops, writeRequests, log>>

\* ------------------------------------------------------------------------
\* The server of the paginated listing
\* ------------------------------------------------------------------------
Records == {"a", "b"}

\* a page body: a sequence of distinct records (the same record may still
\* come back on another page)
Bodies ==
  {b \in UNION {[1..n -> Records] : n \in 0..Cardinality(Records)} :
     \A i, j \in DOMAIN b : i # j => b[i] # b[j]}

ErrorStatuses == {401, 403, 404, 500}

\* what one GET can end in: a response carrying a JSON array, a response
\* with an error status, a 200 response whose body is not JSON, or a
\* transport failure.  Pages beyond MaxPages are empty.
Answers(page) ==
  IF page > MaxPages
    THEN {[type |-> "response", status |-> 200,
           payload |-> [t |-> "array", v |-> <<>>]]}
    ELSE {[type |-> "response", status |-> 200,
           payload |-> [t |-> "array", v |-> b]] : b \in Bodies}
         \cup {[type |-> "response", status |-> st,
                payload |-> [t |-> "object"]] : st \in ErrorStatuses}
         \cup {[type |-> "response", status |-> 200,
                payload |-> [t |-> "garbled"]]}
         \cup {[type |-> "failure"]}

\* ------------------------------------------------------------------------
\* apiCallGet
\* ------------------------------------------------------------------------
\* the executor of one apiCallGet promise, before its fetch is answered
NewCall(pageNum) ==
  [pageNum |-> pageNum, pc |-> "fetch", state |-> "pending",
   value |-> Undefined, settles |-> 0, response |-> Undefined,
   body |-> <<>>, err |-> Undefined]

\* resolve(value) / reject(reason) of a promise: only the first call settles it
Settle(call, state, value) ==
  [call EXCEPT !.state = IF call.state = "pending" THEN state ELSE @,
               !.value = IF call.state = "pending" THEN value ELSE @,
               !.settles = @ + 1]

NoEntriesMessage(kind) ==
  Str(<<Str("No "), Str(kind), Str(" exist in this repository.")>>)

\* fetchGet: one GET request for the page leaves
fetchGet(level, pageNum) ==
  /\ inflight' = inflight \cup {[level |-> level, page |-> pageNum]}
  /\ requested' = Append(requested, pageNum)

\* a caller starts an aggregation: apiCallGet(loginInfo, kind) with the
\* default pageNum = 1
ApiCallGet(kind) ==
  /\ calls = <<>>
  /\ kindGet' = kind
  /\ calls' = <<NewCall(1)>>
  /\ fetchGet(1, 1)
  /\ UNCHANGED <<served, alerts, writeVars>>

\* the network settles the fetch promise of call i
FetchGetSettle(i) ==
  /\ calls[i].pc = "fetch"
  /\ \E rq \in inflight :
       /\ rq.level = i
       /\ \E ans \in Answers(rq.page) :
            /\ inflight' = inflight \ {rq}
            /\ served' = Append(served, [page |-> rq.page, answer |-> ans])
            /\ calls' =
                 IF ans.type = "failure"
                   THEN [calls EXCEPT ![i].pc = "catch",
                                      ![i].err = NetworkError]
                   ELSE [calls EXCEPT ![i].pc = "then1",
                                      ![i].response =
                                        [ok |-> Ok(ans.status),
                                         status |-> ans.status,
                                         statusText |-> StatusText(ans.status),
                                         payload |-> ans.payload]]
  /\ UNCHANGED <<kindGet, requested, alerts, writeVars>>

\* first then-callback: throw on a non-ok response, else response.json()
GetThen1(i) ==
  /\ calls[i].pc = "then1"
  /\ LET response == calls[i].response
     IN calls' =
          IF ~response.ok
            THEN [calls EXCEPT ![i].pc = "catch",
                               ![i].err = NewError(composeStatusMessage(response))]
          ELSE IF response.payload.t # "array"
            THEN [calls EXCEPT ![i].pc = "catch", ![i].err = JsonError]
          ELSE [calls EXCEPT ![i].pc = "then2", ![i].body = response.payload.v]
  /\ UNCHANGED <<kindGet, inflight, requested, served, alerts, writeVars>>

\* GetThen2 without the test pageNum === 1: every empty page rejects
GetThen2NoPageTest(i) ==
  /\ calls[i].pc = "then2"
  /\ LET body == calls[i].body
         pageNum == calls[i].pageNum
     IN IF Len(body) = 0
          THEN /\ calls' =
                    [calls EXCEPT ![i] =
                       [Settle(@, "rejected", NoEntriesMessage(kindGet))
                        EXCEPT !.pc = "done"]]
               /\ UNCHANGED <<inflight, requested>>
          ELSE /\ calls' =
                    Append([calls EXCEPT ![i].pc = "await",
                                         ![i].pageNum = pageNum + 1],
                           NewCall(pageNum + 1))
               /\ fetchGet(i + 1, pageNum + 1)
  /\ UNCHANGED <<kindGet, served, alerts, writeVars>>

\* GetThen2 without the return after resolve(body): an empty page beyond the
\* first resolves and then runs on into the recursive call
GetThen2NoReturn(i) ==
  /\ calls[i].pc = "then2"
  /\ LET body == calls[i].body
         pageNum == calls[i].pageNum
     IN IF Len(body) = 0 /\ (pageNum = 1 \/ Len(calls) > MaxPages + 1)
          THEN /\ calls' =
                    [calls EXCEPT ![i] =
                       [(IF pageNum = 1
                           THEN Settle(@, "rejected", NoEntriesMessage(kindGet))
                           ELSE Settle(@, "resolved", [t |-> "array", v |-> body]))
                        EXCEPT !.pc = "done"]]
               /\ UNCHANGED <<inflight, requested>>
          ELSE /\ calls' =
                    Append([calls EXCEPT ![i] =
                              [(IF Len(body) = 0
                                  THEN Settle(@, "resolved",
                                              [t |-> "array", v |-> body])
                                  ELSE @)
                               EXCEPT !.pc = "await", !.pageNum = pageNum + 1]],
                           NewCall(pageNum + 1))
               /\ fetchGet(i + 1, pageNum + 1)
  /\ UNCHANGED <<kindGet, served, alerts, writeVars>>

\* second then-callback, up to the await of the recursive call
GetThen2(i) ==
  /\ calls[i].pc = "then2"
  /\ LET body == calls[i].body
         pageNum == calls[i].pageNum
     IN IF Len(body) = 0
          THEN /\ calls' =
                    [calls EXCEPT ![i] =
                       [(IF pageNum = 1
                           THEN Settle(@, "rejected", NoEntriesMessage(kindGet))
                           ELSE Settle(@, "resolved", [t |-> "array", v |-> body]))
                        EXCEPT !.pc = "done"]]
               /\ UNCHANGED <<inflight, requested>>
          ELSE /\ calls' =
                    Append([calls EXCEPT ![i].pc = "await",
                                         ![i].pageNum = pageNum + 1],
                           NewCall(pageNum + 1))
               /\ fetchGet(i + 1, pageNum + 1)
  /\ UNCHANGED <<kindGet, served, alerts, writeVars>>

\* GetResume with the two operands of the concatenation swapped
GetResumeSwapped(i) ==
  /\ calls[i].pc = "await"
  /\ i < Len(calls)
  /\ calls[i + 1].state # "pending"
  /\ calls' =
       IF calls[i + 1].state = "resolved"
         THEN [calls EXCEPT ![i] =
                 [Settle(@, "resolved",
                         [t |-> "array", v |-> calls[i + 1].value.v \o @.body])
                  EXCEPT !.pc = "done"]]
         ELSE [calls EXCEPT ![i].pc = "catch", ![i].err = calls[i + 1].value]
  /\ UNCHANGED <<kindGet, inflight, requested, served, alerts, writeVars>>

\* GetResume that answers a rejected recursive call with the pages it has
GetResumePartial(i) ==
  /\ calls[i].pc = "await"
  /\ i < Len(calls)
  /\ calls[i + 1].state # "pending"
  /\ calls' =
       [calls EXCEPT ![i] =
          [Settle(@, "resolved",
                  [t |-> "array",
                   v |-> IF calls[i + 1].state = "resolved"
                           THEN @.body \o calls[i + 1].value.v
                           ELSE @.body])
           EXCEPT !.pc = "done"]]
  /\ UNCHANGED <<kindGet, inflight, requested, served, alerts, writeVars>>

\* the awaited recursive call has settled: resolve with the concatenation, or
\* the await throws the rejection reason and the chain rejects
GetResume(i) ==
  /\ calls[i].pc = "await"
  /\ i < Len(calls)
  /\ calls[i + 1].state # "pending"
  /\ calls' =
       IF calls[i + 1].state = "resolved"
         THEN [calls EXCEPT ![i] =
                 [Settle(@, "resolved",
                         [t |-> "array", v |-> @.body \o calls[i + 1].value.v])
                  EXCEPT !.pc = "done"]]
         ELSE [calls EXCEPT ![i].pc = "catch", ![i].err = calls[i + 1].value]
  /\ UNCHANGED <<kindGet, inflight, requested, served, alerts, writeVars>>

\* GetCatch that reports the error and forgets to reject
GetCatchNoReject(i) ==
  /\ calls[i].pc = "catch"
  /\ alerts' = Append(alerts, calls[i].err)
  /\ calls' = [calls EXCEPT ![i].pc = "done"]
  /\ UNCHANGED <<kindGet, inflight, requested, served, writeVars>>

\* the catch-callback: alert, console.error, reject
GetCatch(i) ==
  /\ calls[i].pc = "catch"
  /\ alerts' = Append(alerts, calls[i].err)
  /\ calls' = [calls EXCEPT ![i] =
                 [Settle(@, "rejected", @.err) EXCEPT !.pc = "done"]]
  /\ UNCHANGED <<kindGet, inflight, requested, served, writeVars>>

\* a blank form: the state of the write side while only listings run
NoNode == [form |-> "none"]

\* no function of the entry codec has been called
NoCall == [pc |-> "form"]

InitGet ==
  /\ kindGet = "labels"
  /\ calls = <<>>
  /\ inflight = {}
  /\ requested = <<>>
  /\ served = <<>>
  /\ alerts = <<>>
  /\ tz = 0
  /\ entryNode = NoNode
  /\ ops = <<>>
  /\ writeRequests = <<>>
  /\ log = <<>>
  /\ codec = NoCall

NextGet ==
  \/ \E kind \in {"labels", "milestones"} : ApiCallGet(kind)
  \/ \E i \in DOMAIN calls : FetchGetSettle(i)
  \/ \E i \in DOMAIN calls : GetThen1(i)
  \/ \E i \in DOMAIN calls : GetThen2(i)
  \/ \E i \in DOMAIN calls : GetResume(i)
  \/ \E i \in DOMAIN calls : GetCatch(i)

Spec == InitGet /\ [][NextGet]_vars

\* the event loop runs every ready callback, and every request issued is
\* answered or fails
FairSpec ==
  /\ Spec
  /\ WF_vars(\E i \in DOMAIN calls : FetchGetSettle(i))
  /\ WF_vars(\E i \in DOMAIN calls : GetThen1(i))
  /\ WF_vars(\E i \in DOMAIN calls : GetThen2(i))
  /\ WF_vars(\E i \in DOMAIN calls : GetResume(i))
  /\ WF_vars(\E i \in DOMAIN calls : GetCatch(i))

\* ------------------------------------------------------------------------
\* Properties of the paginated collector
\* ------------------------------------------------------------------------
\* the answer is a success response carrying a JSON array
IsArrayAnswer(ans) ==
  ans.type = "response" /\ Ok(ans.status) /\ ans.payload.t = "array"

IsNonEmptyPage(ans) == IsArrayAnswer(ans) /\ Len(ans.payload.v) > 0
IsEmptyPage(ans) == IsArrayAnswer(ans) /\ Len(ans.payload.v) = 0

\* the request failed: a non-success status or a transport failure
IsFailedAnswer(ans) ==
  ans.type = "failure" \/ (ans.type = "response" /\ ~Ok(ans.status))

RECURSIVE ConcatPages(_)
\* the records of the first k served pages, page after page
ConcatPages(k) ==
  IF k = 0 THEN <<>> ELSE ConcatPages(k - 1) \o served[k].answer.payload.v

\* the server answered pages 1..k non-empty and page k + 1 empty
PagesThenEmpty(k) ==
  /\ k >= 1
  /\ Len(served) >= k + 1
  /\ \A n \in 1..(k + 1) : served[n].page = n
  /\ \A n \in 1..k : IsNonEmptyPage(served[n].answer)
  /\ IsEmptyPage(served[k + 1].answer)

AllDone == calls # <<>> /\ \A i \in DOMAIN calls : calls[i].pc = "done"

\* C1: when the server answers pages 1..k non-empty and page k+1 empty, the
\* outermost apiCallGet is never rejected and, once its chain has run, it is
\* resolved with exactly the records of pages 1..k, page after page, each
\* page in server order.
C1_AggregatesInPageOrder ==
  \A k \in 1..Len(served) :
    PagesThenEmpty(k) =>
      /\ calls[1].state # "rejected"
      /\ calls[1].state = "resolved" =>
           calls[1].value = [t |-> "array", v |-> ConcatPages(k)]
      /\ calls[1].pc = "done" => calls[1].state = "resolved"

C1_Witness ==
  /\ PagesThenEmpty(2)
  /\ calls[1].state = "resolved"
  /\ calls[1].value.v = <<"a", "b", "b">>

\* C2: once a page request of the aggregation has failed (error status or
\* transport failure, on page 1 or later), the outermost apiCallGet is never
\* resolved, and when every callback has run it is rejected.
C2_FailureRejectsWhole ==
  (\E n \in DOMAIN served : IsFailedAnswer(served[n].answer)) =>
    /\ calls[1].state # "resolved"
    /\ AllDone => calls[1].state = "rejected"

C2_Witness ==
  /\ Len(served) >= 2
  /\ IsNonEmptyPage(served[1].answer)
  /\ IsFailedAnswer(served[Len(served)].answer)
  /\ calls[1].state = "rejected"

\* C4: an empty page 1 rejects the outermost call with the message that names
\* the kind; an empty page beyond the first resolves its own call with the
\* empty array, raises no alert, and leaves the outermost call resolved.
C4_EmptyFirstVersusLater ==
  /\ (Len(served) >= 1 /\ served[1].page = 1 /\ IsEmptyPage(served[1].answer)) =>
       /\ calls[1].state # "resolved"
       /\ Len(calls) = 1
       /\ calls[1].pc = "done" =>
            /\ calls[1].state = "rejected"
            /\ calls[1].value = NoEntriesMessage(kindGet)
  /\ \A k \in 1..Len(served) :
       PagesThenEmpty(k) =>
         /\ calls[k + 1].state # "rejected"
         /\ calls[k + 1].pc = "done" =>
              /\ calls[k + 1].state = "resolved"
              /\ calls[k + 1].value = [t |-> "array", v |-> <<>>]
         /\ alerts = <<>>
         /\ AllDone => calls[1].state = "resolved"

C4_Witness ==
  /\ PagesThenEmpty(1)
  /\ AllDone
  /\ calls[1].state = "resolved"
  /\ calls[2].value = [t |-> "array", v |-> <<>>]

C4_WitnessFirst ==
  /\ Len(served) = 1
  /\ IsEmptyPage(served[1].answer)
  /\ calls[1].state = "rejected"

\* C7: the GET requests of one aggregation leave one at a time and once
\* each: the n-th request is for page n, at most one request is unanswered,
\* a request leaves only when every earlier one has been answered, and every
\* request but the last was answered with a non-empty page.
C7_SequentialRequests ==
  /\ Cardinality(inflight) <= 1
  /\ \A n \in DOMAIN requested : requested[n] = n
  /\ Len(served) <= Len(requested)
  /\ Cardinality(inflight) = Len(requested) - Len(served)
  /\ \A n \in DOMAIN served : served[n].page = requested[n]
  /\ \A n \in 1..(Len(requested) - 1) :
       n <= Len(served) /\ IsNonEmptyPage(served[n].answer)

C7_Witness ==
  /\ Len(requested) = 3
  /\ Len(served) = 2
  /\ Cardinality(inflight) = 1

\* C9: once started, the outermost apiCallGet is eventually settled; resolve
\* or reject is called on it exactly once, and its settled state never
\* changes.
C9_SettlesExactlyOnce ==
  /\ (calls # <<>>) ~> (calls # <<>> /\ calls[1].state # "pending")
  /\ [](\A i \in DOMAIN calls :
          /\ calls[i].settles <= 1
          /\ calls[i].settles = 1 <=> calls[i].state # "pending")
  /\ [][calls # <<>> /\ calls[1].state # "pending" =>
          /\ calls'[1].state = calls[1].state
          /\ calls'[1].value = calls[1].value]_vars

C9_Witness ==
  /\ Len(calls) >= 3
  /\ AllDone
  /\ calls[1].settles = 1

\* ------------------------------------------------------------------------
\* The form the write operations read, and the environment
\* ------------------------------------------------------------------------
TzOffsets == {-300, 0, 540}

NullNumber == <<"n", "u", "l", "l">>
Date1 == <<"2", "0", "2", "4", "-", "0", "3", "-", "0", "5">>
Date2 == <<"2", "0", "2", "4", "-", "1", "2", "-", "3", "1">>
Time1 == <<"1", "4", ":", "3", "0", ":", "0", "0">>
Time2 == <<"2", "3", ":", "5", "9", ":", "5", "9">>

\* the due-date input of a milestone: its value and its data-orig-time
DueDateNodes ==
  {[value |-> <<>>, origTime |-> Null],
   [value |-> Date1, origTime |-> Null],
   [value |-> Date1, origTime |-> Str(Time1)],
   [value |-> Date2, origTime |-> Str(Time2)]}

LabelNodes ==
  {[form |-> "labels", name |-> "bug", origVal |-> "defect",
    color |-> <<"#", "d", "7", "3", "a", "4", "a">>,
    description |-> "Something is broken"]}

MilestoneNodes ==
  {[form |-> "milestones", dataNumber |-> n, title |-> "v2", origVal |-> "v1",
    state |-> st, description |-> "Second release", dueDate |-> d] :
     n \in {NullNumber, <<"7">>}, st \in {"open", "closed"}, d \in DueDateNodes}

EntryNodes == LabelNodes \cup MilestoneNodes

\* the kinds a caller passes: the kind of the form, or an unsupported one
Kinds == {"labels", "milestones", "issues"}

\* the entry nodes the write operations are run on
WriteNodes ==
  LabelNodes
  \cup {n \in MilestoneNodes :
          /\ n.state = "open"
          /\ \/ n.dataNumber = NullNumber /\ n.dueDate.value = <<>>
             \/ n.dataNumber # NullNumber /\ n.dueDate.origTime = Str(Time1)}

WriteStatuses == {201, 404, 422}

\* ------------------------------------------------------------------------
\* apiCallCreate, apiCallUpdate, apiCallDelete
\* ------------------------------------------------------------------------
\* kind.slice(0, -1) of the two supported kinds
KindSingular(kind) == IF kind = "labels" THEN "label" ELSE "milestone"

\* writeLog(string): one more paragraph in the modal
writeLog(string) == log' = Append(log, string)

\* fetchCreate / fetchUpdate / fetchDelete: the request that leaves
WriteRequest(op, kind, entryPackage) ==
  CASE op = "create" ->
         [method |-> "POST", kind |-> kind, sign |-> Undefined,
          body |-> JsonStringify(entryPackage.body)]
    [] op = "update" ->
         [method |-> "PATCH", kind |-> kind,
          sign |-> entryPackage.names.apiCallSign,
          body |-> JsonStringify(entryPackage.body)]
    [] op = "delete" ->
         [method |-> "DELETE", kind |-> kind,
          sign |-> entryPackage.names.apiCallSign, body |-> Undefined]

\* the prologue the three operations share, with the catch leaving without
\* a word in the log
ApiCallWriteSilent(op, kind) ==
  /\ Len(ops) < MaxOps
  /\ IF ~validateKind(kind)
       THEN /\ UNCHANGED log
            /\ ops' = Append(ops, [op |-> op, kind |-> kind, pc |-> "done",
                                   valid |-> FALSE,
                                   logged |-> Undefined])
            /\ UNCHANGED writeRequests
       ELSE LET serializedEntry == serializeEntry(entryNode, kind, tz)
                packed == packEntry(serializedEntry, kind)
                entryPackage == [body |-> packed.body, names |-> packed.names]
            IN /\ ops' = Append(ops,
                          [op |-> op, kind |-> kind, pc |-> "fetch",
                           valid |-> TRUE,
                           serialized |-> serializedEntry,
                           serializedEntry |-> packed.arg,
                           bodyIsSerializedEntry |-> packed.bodyIsArg,
                           entryPackage |-> entryPackage,
                           response |-> Undefined, err |-> Undefined,
                           logged |-> Undefined])
               /\ writeRequests' =
                    Append(writeRequests,
                           [id |-> Len(ops) + 1,
                            request |-> WriteRequest(op, kind, entryPackage)])
               /\ UNCHANGED log
  /\ UNCHANGED <<envVars, getVars>>

\* the prologue the three operations share: validateKind, and on its error
\* writeLog(err) and return; else getLoginInfo, serializeEntry, packEntry and
\* the fetch of the operation.  In the record of the operation, "serialized"
\* is the value serializeEntry returned and "serializedEntry" is that same
\* object as it is once packEntry has returned.
ApiCallWrite(op, kind) ==
  /\ Len(ops) < MaxOps
  /\ IF ~validateKind(kind)
       THEN /\ writeLog(ErrToString(ValidationError(kind)))
            /\ ops' = Append(ops, [op |-> op, kind |-> kind, pc |-> "done",
                                   valid |-> FALSE,
                                   logged |-> Str(ErrToString(ValidationError(kind)))])
            /\ UNCHANGED writeRequests
       ELSE LET serializedEntry == serializeEntry(entryNode, kind, tz)
                packed == packEntry(serializedEntry, kind)
                entryPackage == [body |-> packed.body, names |-> packed.names]
            IN /\ ops' = Append(ops,
                          [op |-> op, kind |-> kind, pc |-> "fetch",
                           valid |-> TRUE,
                           serialized |-> serializedEntry,
                           serializedEntry |-> packed.arg,
                           bodyIsSerializedEntry |-> packed.bodyIsArg,
                           entryPackage |-> entryPackage,
                           response |-> Undefined, err |-> Undefined,
                           logged |-> Undefined])
               /\ writeRequests' =
                    Append(writeRequests,
                           [id |-> Len(ops) + 1,
                            request |-> WriteRequest(op, kind, entryPackage)])
               /\ UNCHANGED log
  /\ UNCHANGED <<envVars, getVars>>

\* a supported kind is the kind of the form the entry node belongs to
KindFitsNode(kind) == validateKind(kind) => kind = entryNode.form

ApiCallCreate(kind) == KindFitsNode(kind) /\ ApiCallWrite("create", kind)
ApiCallUpdate(kind) == KindFitsNode(kind) /\ ApiCallWrite("update", kind)
ApiCallDelete(kind) == KindFitsNode(kind) /\ ApiCallWrite("delete", kind)

\* the network settles the fetch promise of operation j
FetchWriteSettle(j) ==
  /\ ops[j].pc = "fetch"
  /\ \/ \E st \in WriteStatuses :
          ops' = [ops EXCEPT ![j].pc = "then1", ![j].response = Response(st)]
     \/ ops' = [ops EXCEPT ![j].pc = "catch", ![j].err = NetworkError]
  /\ UNCHANGED <<envVars, writeRequests, log, getVars>>

CreatedMessage(o) ==
  <<Str("Created "), Str(KindSingular(o.kind)), Str(": "),
    o.entryPackage.names.newName, Str(".")>>

UpdatedMessage(o) ==
  <<Str("Updated "), Str(KindSingular(o.kind)), Str(": "),
    o.entryPackage.names.originalName, Str(" &#8680; "),
    o.entryPackage.names.newName, Str(".")>>

DeletedMessage(o) ==
  <<Str("Deleted "), Str(KindSingular(o.kind)), Str(": "),
    o.entryPackage.names.originalName, Str(".")>>

FailedMessage(o, err) ==
  CASE o.op = "create" ->
         <<Str("Creation of "), Str(KindSingular(o.kind)), Str(" "),
           o.entryPackage.names.newName, Str(" failed due to error: ")>>
           \o ErrToString(err) \o <<Str(".")>>
    [] o.op = "update" ->
         <<Str("Update of "), Str(KindSingular(o.kind)), Str(" "),
           o.entryPackage.names.originalName, Str(" &#8680; "),
           o.entryPackage.names.newName, Str(" failed due to error: ")>>
           \o ErrToString(err) \o <<Str(".")>>
    [] o.op = "delete" ->
         <<Str("Deletion of "), Str(KindSingular(o.kind)), Str(" "),
           o.entryPackage.names.originalName, Str(" "),
           Str("failed due to error: ")>>
           \o ErrToString(err) \o <<Str(".")>>

\* first then-callback: composeStatusMessage is evaluated on a non-ok
\* response and its value dropped; nothing is thrown.  apiCallDelete writes
\* its log line here, the other two in a second then-callback.
WriteThen1(j) ==
  /\ ops[j].pc = "then1"
  /\ LET dropped == IF ~ops[j].response.ok
                      THEN composeStatusMessage(ops[j].response)
                      ELSE <<>>
     IN IF ops[j].op = "delete"
          THEN /\ writeLog(DeletedMessage(ops[j]))
               /\ ops' = [ops EXCEPT ![j].pc = "done",
                                     ![j].logged = Str(DeletedMessage(ops[j]))]
          ELSE /\ UNCHANGED log
               /\ ops' = [ops EXCEPT ![j].pc = "then2"]
  /\ UNCHANGED <<envVars, writeRequests, getVars>>

\* second then-callback of apiCallCreate and apiCallUpdate
WriteThen2(j) ==
  /\ ops[j].pc = "then2"
  /\ LET msg == IF ops[j].op = "create" THEN CreatedMessage(ops[j])
                                        ELSE UpdatedMessage(ops[j])
     IN /\ writeLog(msg)
        /\ ops' = [ops EXCEPT ![j].pc = "done", ![j].logged = Str(msg)]
  /\ UNCHANGED <<envVars, writeRequests, getVars>>

\* the catch-callback: writeLog of the failure, console.error
WriteCatch(j) ==
  /\ ops[j].pc = "catch"
  /\ LET msg == FailedMessage(ops[j], ops[j].err)
     IN /\ writeLog(msg)
        /\ ops' = [ops EXCEPT ![j].pc = "done", ![j].logged = Str(msg)]
  /\ UNCHANGED <<envVars, writeRequests, getVars>>

InitWrite ==
  /\ kindGet = "labels"
  /\ calls = <<>>
  /\ inflight = {}
  /\ requested = <<>>
  /\ served = <<>>
  /\ alerts = <<>>
  /\ tz \in TzOffsets
  /\ entryNode \in WriteNodes
  /\ ops = <<>>
  /\ writeRequests = <<>>
  /\ log = <<>>
  /\ codec = NoCall

NextWrite ==
  \/ \E kind \in Kinds : ApiCallCreate(kind)
  \/ \E kind \in Kinds : ApiCallUpdate(kind)
  \/ \E kind \in Kinds : ApiCallDelete(kind)
  \/ \E j \in DOMAIN ops : FetchWriteSettle(j)
  \/ \E j \in DOMAIN ops : WriteThen1(j)
  \/ \E j \in DOMAIN ops : WriteThen2(j)
  \/ \E j \in DOMAIN ops : WriteCatch(j)

WriteSpec == InitWrite /\ [][NextWrite]_vars

\* ------------------------------------------------------------------------
\* The entry codec called on its own
\* ------------------------------------------------------------------------
\* serializeEntry(node, kind) is called on the entry node; an unsupported
\* kind is alerted and undefined is returned
CallSerializeEntry(kind) ==
  /\ codec.pc = "form"
  /\ KindFitsNode(kind)
  /\ codec' = [pc |-> "serialized", kind |-> kind,
               returned |-> serializeEntry(entryNode, kind, tz)]
  /\ alerts' = IF validateKind(kind) THEN alerts
               ELSE Append(alerts, ValidationError(kind))
  /\ UNCHANGED <<tz, entryNode, ops, writeRequests, log,
                 kindGet, calls, inflight, requested, served>>

\* packEntry(serializedEntry, kind) is called on the object serializeEntry
\* returned: "given" is that object as it was passed, "serializedEntry" the
\* same object once packEntry has returned
CallPackEntry ==
  /\ codec.pc = "serialized"
  /\ codec.returned # Undefined
  /\ LET packed == packEntry(codec.returned, codec.kind)
     IN codec' = [pc |-> "packed", kind |-> codec.kind,
                  given |-> codec.returned,
                  serializedEntry |-> packed.arg,
                  bodyIsSerializedEntry |-> packed.bodyIsArg,
                  returned |-> [body |-> packed.body, names |-> packed.names]]
  /\ UNCHANGED <<tz, entryNode, ops, writeRequests, log, getVars>>

\* formatDate(node) is called on the due-date input of a milestone
CallFormatDate ==
  /\ codec.pc = "form"
  /\ entryNode.form = "milestones"
  /\ codec' = [pc |-> "formatted", node |-> entryNode.dueDate,
               returned |-> formatDate(entryNode.dueDate, tz)]
  /\ UNCHANGED <<tz, entryNode, ops, writeRequests, log, getVars>>

InitCodec ==
  /\ kindGet = "labels"
  /\ calls = <<>>
  /\ inflight = {}
  /\ requested = <<>>
  /\ served = <<>>
  /\ alerts = <<>>
  /\ tz \in TzOffsets
  /\ entryNode \in EntryNodes
  /\ ops = <<>>
  /\ writeRequests = <<>>
  /\ log = <<>>
  /\ codec = NoCall

NextCodec ==
  \/ \E kind \in Kinds : CallSerializeEntry(kind)
  \/ CallPackEntry
  \/ CallFormatDate

CodecSpec == InitCodec /\ [][NextCodec]_vars

\* ------------------------------------------------------------------------
\* Properties of the write operations and of the entry codec
\* ------------------------------------------------------------------------
\* part occurs in msg as a run of consecutive elements
Contains(msg, part) ==
  \E i \in 1..(Len(msg) - Len(part) + 1) :
    SubSeq(msg, i, i + Len(part) - 1) = part

\* operation j received a response with a non-2xx status and has finished
FinishedNonOk(j) ==
  /\ ops[j].valid
  /\ ops[j].pc = "done"
  /\ ops[j].response # Undefined
  /\ ~ops[j].response.ok

\* C3: a create, update or delete that received a non-2xx response writes
\* the failure line of the operation to the log, carrying the formatted
\* status message of that response.
C3_NonOkIsLoggedAsFailure ==
  \A j \in DOMAIN ops :
    FinishedNonOk(j) =>
      /\ ops[j].logged.t = "string"
      /\ Contains(ops[j].logged.v, composeStatusMessage(ops[j].response))
      /\ ops[j].logged.v \notin
           {CreatedMessage(ops[j]), UpdatedMessage(ops[j]), DeletedMessage(ops[j])}

\* C5: a create, update or delete called with an unsupported kind ends at
\* once with the validation error in the log and never issues a request.
C5_InvalidKindNeverFetches ==
  \A j \in DOMAIN ops :
    ~validateKind(ops[j].kind) =>
      /\ ops[j].pc = "done"
      /\ ops[j].logged = Str(ErrToString(ValidationError(ops[j].kind)))
      /\ \E n \in DOMAIN log : log[n] = ErrToString(ValidationError(ops[j].kind))
      /\ \A n \in DOMAIN writeRequests : writeRequests[n].id # j

C5_Witness ==
  \E j \in DOMAIN ops :
    /\ ops[j].kind = "issues"
    /\ ops[j].pc = "done"
    /\ log # <<>>
    /\ \E i \in DOMAIN ops : ops[i].valid /\ ops[i].pc = "done"
    /\ Len(writeRequests) = 1

\* C6: packEntry leaves the object it was given as it was: when it returns,
\* the caller's serialized entry has the fields and values it was passed
\* with, and the body of the package is another object.
C6_PackLeavesEntryUntouched ==
  codec.pc = "packed" =>
    /\ codec.serializedEntry = codec.given
    /\ ~codec.bodyIsSerializedEntry

\* C8: every milestone record serializeEntry produces carries the state of
\* the form, the body a create sends contains it, and a new milestone has
\* due_on exactly when a due date was supplied.
C8_MilestoneCarriesState ==
  \A j \in DOMAIN ops :
    (ops[j].valid /\ ops[j].kind = "milestones") =>
      /\ GetField(ops[j].serialized, "state") = Str(entryNode.state)
      /\ ops[j].op = "create" =>
           \A n \in DOMAIN writeRequests :
             writeRequests[n].id = j =>
               GetField(writeRequests[n].request.body, "state")
                 = Str(entryNode.state)
      /\ entryNode.dataNumber = NullNumber =>
           ("due_on" \in DOMAIN ops[j].serialized
              <=> entryNode.dueDate.value # <<>>)

\* the instant the calendar fields of the form spell, with the Z suffix
SameFieldsInstant(node) ==
  IF node.value = <<>> THEN Null
  ELSE Str(node.value \o <<"T">>
             \o (IF node.origTime = Null
                   THEN <<"0", "0", ":", "0", "0", ":", "0", "0">>
                   ELSE node.origTime.v)
             \o <<"Z">>)

\* C10: formatDate gives the date and the time of the form, joined by T and
\* ended by Z (midnight when there is no time, null when there is no date),
\* whatever the time-zone offset of the environment.
C10_FormatDateKeepsFields ==
  codec.pc = "formatted" => codec.returned = SameFieldsInstant(codec.node)

====
